---- MODULE Spec2Model ----
(***************************************************************************)
(* Model of A4_Zakir/geofunctions_A4_Khizer.py: the NDVI computation       *)
(* (calculate_ndvi), the statistics report (print_ndvi_stats) and the      *)
(* top-N ranking (get_top_ndvi_values), as numpy evaluates them.           *)
(*                                                                         *)
(* A number is a pair <<n, d>>: d > 0 is the rational n/d in lowest terms, *)
(* <<0,0>> is NaN, <<1,0>> is +inf and <<-1,0>> is -inf.  Integer dtypes   *)
(* keep their width (wrap-around modulo 2^bits); floating values are exact *)
(* rationals that overflow to an infinity beyond FMax (rounding is not     *)
(* modelled).                                                              *)
(***************************************************************************)
EXTENDS Integers, Sequences, FiniteSets

VARIABLES tiff, ndvi, ret

vars == <<tiff, ndvi, ret>>

---------------------------------------------------------------------------
(* Bounds of the model *)

\* largest finite magnitude of the modelled floating dtype
FMax == 8
\* largest number of bands in a raster file
MaxBands == 5
\* largest num_values a caller asks for
MaxN == 5
\* num_values ranges down to -MaxNeg
MaxNeg == 2
\* shape bounds of the NDVI arrays a caller passes in
MaxRows == 2
MaxCols == 2
MaxCells == 4

---------------------------------------------------------------------------
(* Numbers *)

NaN == <<0, 0>>
PInf == <<1, 0>>
NInf == <<-1, 0>>
Zero == <<0, 1>>
One == <<1, 1>>
MinusOne == <<-1, 1>>
Half == <<1, 2>>

Abs(x) == IF x < 0 THEN -x ELSE x

RECURSIVE GCD(_, _)
GCD(a, b) == IF b = 0 THEN a ELSE GCD(b, a % b)

\* the rational n/d (d # 0) in lowest terms with a positive denominator
Rat(n, d) ==
    LET g == GCD(Abs(n), Abs(d))
        s == IF d < 0 THEN -1 ELSE 1
    IN  <<(s * n) \div g, (s * d) \div g>>

Int2Num(i) == <<i, 1>>

IsNaN(x) == x = NaN
IsInf(x) == x = PInf \/ x = NInf
IsFinite(x) == x[2] # 0

Neg(x) == <<-x[1], x[2]>>

\* IEEE comparison a < b: false when either side is NaN
FLess(a, b) ==
    /\ ~IsNaN(a)
    /\ ~IsNaN(b)
    /\ IF a[2] = 0 /\ b[2] = 0 THEN a[1] < b[1]
       ELSE IF a[2] = 0 THEN a[1] < 0
       ELSE IF b[2] = 0 THEN b[1] > 0
       ELSE a[1] * b[2] < b[1] * a[2]

FLeq(a, b) == ~IsNaN(a) /\ ~IsNaN(b) /\ ~FLess(b, a)

\* a finite result of the floating dtype, overflowing to an infinity
Overflow(x) ==
    IF FLess(Int2Num(FMax), x) THEN PInf
    ELSE IF FLess(x, Int2Num(-FMax)) THEN NInf
    ELSE x

\* exact sum, difference, product and quotient of finite numbers
LCM(a, b) == (a \div GCD(a, b)) * b
QAdd(a, b) ==
    LET l == LCM(a[2], b[2])
    IN  Rat(a[1] * (l \div a[2]) + b[1] * (l \div b[2]), l)
QSub(a, b) == QAdd(a, Neg(b))
QMul(a, b) == Rat(a[1] * b[1], a[2] * b[2])
QDiv(a, b) == Rat(a[1] * b[2], a[2] * b[1])

Sign(x) == IF x[1] > 0 THEN 1 ELSE IF x[1] < 0 THEN -1 ELSE 0

\* IEEE addition without the overflow of the result
IeeeAdd(a, b) ==
    IF IsNaN(a) \/ IsNaN(b) THEN NaN
    ELSE IF IsInf(a) /\ IsInf(b) THEN (IF a = b THEN a ELSE NaN)
    ELSE IF IsInf(a) THEN a
    ELSE IF IsInf(b) THEN b
    ELSE QAdd(a, b)

\* IEEE division without the overflow of the result
IeeeDiv(a, b) ==
    IF IsNaN(a) \/ IsNaN(b) THEN NaN
    ELSE IF IsInf(a) /\ IsInf(b) THEN NaN
    ELSE IF IsInf(a) THEN (IF Sign(b) < 0 THEN Neg(a) ELSE a)
    ELSE IF IsInf(b) THEN Zero
    ELSE IF b = Zero THEN (IF a = Zero THEN NaN
                           ELSE IF Sign(a) > 0 THEN PInf ELSE NInf)
    ELSE QDiv(a, b)

---------------------------------------------------------------------------
(* dtypes *)

IntDtypes == {"uint8", "uint16", "int16"}
Dtypes == IntDtypes \cup {"float32"}

Bits(dtype) == IF dtype = "uint8" THEN 8 ELSE 16
Signed(dtype) == dtype = "int16"

\* the value an integer result takes in a fixed-width dtype
Wrap(dtype, x) ==
    LET m == 2 ^ Bits(dtype)
    IN  IF Signed(dtype) THEN ((x + m \div 2) % m) - m \div 2 ELSE x % m

\* nir_band + red_band, elementwise, in the dtype of the bands
DAdd(dtype, a, b) ==
    IF dtype \in IntDtypes THEN Int2Num(Wrap(dtype, a[1] + b[1]))
    ELSE Overflow(IeeeAdd(a, b))

\* nir_band - red_band, elementwise, in the dtype of the bands
DSub(dtype, a, b) ==
    IF dtype \in IntDtypes THEN Int2Num(Wrap(dtype, a[1] - b[1]))
    ELSE Overflow(IeeeAdd(a, Neg(b)))

\* numpy true division: integers divide as float64, floats in their dtype
DTrueDivide(dtype, a, b) ==
    IF dtype \in IntDtypes THEN IeeeDiv(a, b) ELSE Overflow(IeeeDiv(a, b))

---------------------------------------------------------------------------
(* Arrays: a 2-D array is a sequence of rows, a band stack a sequence of   *)
(* 2-D arrays; Python indices are zero-based.                              *)

NRows(a) == Len(a)
NCols(a) == IF Len(a) = 0 THEN 0 ELSE Len(a[1])
Size(a) == NRows(a) * NCols(a)

Map2(Op(_, _), a, b) ==
    [r \in 1..NRows(a) |-> [c \in 1..NCols(a) |-> Op(a[r][c], b[r][c])]]

\* x != 0 as numpy evaluates it (NaN != 0 is True)
NotZero(x) == x # Zero

\* the quotient taken at every element, zero denominator or not
np_where_unguarded(cond, a, b) == a
\* np.where(cond, a, b) at one element
np_where(cond, a, b) == IF cond THEN a ELSE b

\* the value left unclamped
np_clip_none(x, lo, hi) == x
\* np.clip(x, lo, hi) at one element: NaN propagates
np_clip(x, lo, hi) ==
    IF IsNaN(x) THEN x
    ELSE IF FLess(x, lo) THEN lo
    ELSE IF FLess(hi, x) THEN hi
    ELSE x

\* zero-based indices of the red and near-infrared bands
RedIndex == 2
NirIndex == 3

\* the NDVI of one pixel
ndvi_pixel(dtype, red, nir) ==
    LET denominator == DAdd(dtype, nir, red)
        quotient == DTrueDivide(dtype, DSub(dtype, nir, red), denominator)
    IN  np_clip(np_where(NotZero(denominator), quotient, Zero), MinusOne, One)

NoValue == <<>>

\* the bands taken one index too low (bands[1] and bands[2])
calculate_ndvi_low_bands(t) ==
    IF Len(t.bands) <= RedIndex - 1
    THEN [status |-> "IndexError", value |-> NoValue, tiff |-> t]
    ELSE [status |-> "ok",
          value |-> Map2(LAMBDA r, n : ndvi_pixel(t.dtype, r, n),
                         t.bands[RedIndex], t.bands[NirIndex]),
          tiff |-> t]
\* calculate_ndvi on the raster file t: the outcome and the file afterwards
calculate_ndvi(t) ==
    IF Len(t.bands) <= RedIndex \/ Len(t.bands) <= NirIndex
    THEN [status |-> "IndexError", value |-> NoValue, tiff |-> t]
    ELSE [status |-> "ok",
          value |-> Map2(LAMBDA r, n : ndvi_pixel(t.dtype, r, n),
                         t.bands[RedIndex + 1], t.bands[NirIndex + 1]),
          tiff |-> t]

---------------------------------------------------------------------------
(* Ranking: get_top_ndvi_values *)

Min2(a, b) == IF a < b THEN a ELSE b
Max2(a, b) == IF a > b THEN a ELSE b

\* the array flattened in column-major (Fortran) order
RECURSIVE flatten_fortran(_)
flatten_fortran(a) ==
    IF NCols(a) = 0 THEN <<>>
    ELSE [r \in 1..NRows(a) |-> a[r][1]]
         \o flatten_fortran([r \in 1..NRows(a) |-> Tail(a[r])])
\* ndarray.flatten(): a copy of the array in row-major (C) order
RECURSIVE flatten(_)
flatten(a) == IF a = <<>> THEN <<>> ELSE a[1] \o flatten(Tail(a))

\* the order numpy sorts in: ascending, NaN after every number
SortBefore(a, b) == FLess(a, b) \/ (~IsNaN(a) /\ IsNaN(b))

\* the indices of S no other index of S sorts before
Firsts(s, S) == {i \in S : \A j \in S : ~SortBefore(s[j + 1], s[i + 1])}

\* the orders of the zero-based indices S that sort s ascending
RECURSIVE SortedOrders(_, _)
SortedOrders(s, S) ==
    IF S = {} THEN {<<>>}
    ELSE UNION {{<<i>> \o rest : rest \in SortedOrders(s, S \ {i})} :
                   i \in Firsts(s, S)}

\* ndarray.argsort(): the zero-based indices that sort s.  The default kind
\* is not stable, so every order of equal elements is a possible result.
argsort(s) == SortedOrders(s, 0..(Len(s) - 1))

\* a slice whose negative start is not clamped to the start of s
slice_from_unclamped(s, start) ==
    LET n == Len(s)
        st == IF start < 0 THEN Abs(n + start) ELSE Min2(start, n)
    IN  SubSeq(s, Min2(st, n) + 1, n)
\* the Python slice s[start:]
slice_from(s, start) ==
    LET n == Len(s)
        st == IF start < 0 THEN Max2(n + start, 0) ELSE Min2(start, n)
    IN  SubSeq(s, st + 1, n)

\* order[:num_values], the head of the ascending order
take_last_as_first(order, num_values) ==
    SubSeq(order, 1, Min2(Max2(num_values, 0), Len(order)))
\* order[-num_values:]
take_last(order, num_values) == slice_from(order, -num_values)

\* the Python slice s[::-1]
reversed(s) == [i \in 1..Len(s) |-> s[Len(s) + 1 - i]]

\* fancy indexing flat[indices] with zero-based indices
take(flat, indices) == [i \in 1..Len(indices) |-> flat[indices[i] + 1]]

\* the DataFrame built from one result of argsort
top_table(flat_ndvi, order, num_values) ==
    LET top_indices == reversed(take_last(order, num_values))
        top_values == take(flat_ndvi, top_indices)
    IN  [NDVI |-> top_values, Index |-> top_indices]

\* the shape rows x cols filled from a flat sequence, row-major
reshape(flat, rows, cols) ==
    [r \in 1..rows |-> [c \in 1..cols |-> flat[(r - 1) * cols + c]]]

\* the ranking sorting the caller's array in place (a view instead of the
\* copy flatten() makes)
get_top_ndvi_values_inplace(a, num_values) ==
    LET flat_ndvi == flatten(a)
    IN  {[df |-> top_table(flat_ndvi, order, num_values),
          ndvi |-> reshape(take(flat_ndvi, order), NRows(a), NCols(a))] :
            order \in argsort(flat_ndvi)}
\* get_top_ndvi_values(a, num_values): the possible outcomes, each the
\* returned DataFrame and the caller's array afterwards
get_top_ndvi_values(a, num_values) ==
    LET flat_ndvi == flatten(a)
    IN  {[df |-> top_table(flat_ndvi, order, num_values), ndvi |-> a] :
            order \in argsort(flat_ndvi)}

---------------------------------------------------------------------------
(* Statistics: print_ndvi_stats *)

\* the non-NaN entries of an array, flattened
Valid(a) == SelectSeq(flatten(a), LAMBDA x : ~IsNaN(x))

RECURSIVE SeqSum(_)
SeqSum(s) == IF s = <<>> THEN Zero ELSE QAdd(s[1], SeqSum(Tail(s)))

Range(s) == {s[i] : i \in 1..Len(s)}

\* s in ascending order
Sorted(s) == take(s, CHOOSE p \in argsort(s) : TRUE)

np_nanmin(a) ==
    LET v == Valid(a)
    IN  IF v = <<>> THEN NaN
        ELSE CHOOSE x \in Range(v) : \A y \in Range(v) : FLeq(x, y)

np_nanmax(a) ==
    LET v == Valid(a)
    IN  IF v = <<>> THEN NaN
        ELSE CHOOSE x \in Range(v) : \A y \in Range(v) : FLeq(y, x)

\* the sum of the non-NaN entries over the count of all entries
np_nanmean_all(a) ==
    LET v == Valid(a)
    IN  IF v = <<>> THEN NaN ELSE QDiv(SeqSum(v), Int2Num(Size(a)))
\* np.nanmean: the mean of the non-NaN entries
np_nanmean(a) ==
    LET v == Valid(a)
    IN  IF v = <<>> THEN NaN ELSE QDiv(SeqSum(v), Int2Num(Len(v)))

np_nanmedian(a) ==
    LET v == Sorted(Valid(a))
        n == Len(v)
    IN  IF n = 0 THEN NaN
        ELSE IF n % 2 = 1 THEN v[(n + 1) \div 2]
        ELSE QDiv(QAdd(v[n \div 2], v[n \div 2 + 1]), Int2Num(2))

\* the square root of a number, kept symbolic
Sqrt(x) == [sqrt_of |-> x]

\* np.nanstd with the default ddof = 0
np_nanstd(a) ==
    LET v == Valid(a)
        n == Len(v)
        mean == QDiv(SeqSum(v), Int2Num(n))
        sq == [i \in 1..n |-> QMul(QSub(v[i], mean), QSub(v[i], mean))]
    IN  IF n = 0 THEN Sqrt(NaN) ELSE Sqrt(QDiv(SeqSum(sq), Int2Num(n)))

\* print_ndvi_stats(a): the five printed values and the array afterwards
print_ndvi_stats(a) ==
    [printed |-> [Minimum |-> np_nanmin(a),
                  Maximum |-> np_nanmax(a),
                  Mean |-> np_nanmean(a),
                  Median |-> np_nanmedian(a),
                  StandardDeviation |-> np_nanstd(a)],
     ndvi |-> a]

---------------------------------------------------------------------------
(* Inputs *)

\* pixel values a raster of each dtype holds
Vals(dtype) ==
    IF dtype = "uint8" THEN {Int2Num(0), Int2Num(56), Int2Num(200)}
    ELSE IF dtype = "uint16" THEN {Int2Num(0), Int2Num(100), Int2Num(300)}
    ELSE IF dtype = "int16"
         THEN {Int2Num(-16384), Int2Num(8192), Int2Num(16384), Int2Num(24576)}
    ELSE {NaN, PInf, Int2Num(-1), Int2Num(1), Int2Num(3), Int2Num(FMax)}

Arrays(shape, vals) == [1..shape[1] -> [1..shape[2] -> vals]]

Zeros(shape) == [r \in 1..shape[1] |-> [c \in 1..shape[2] |-> Zero]]

\* a band stack of count bands whose bands 2 and 3 are red and nir
Stack(count, shape, red, nir) ==
    [b \in 1..count |-> IF b = RedIndex + 1 THEN red
                        ELSE IF b = NirIndex + 1 THEN nir
                        ELSE Zeros(shape)]

\* the raster files with red and nir bands of one shape and band count
TiffsOf(shape, counts) ==
    UNION {{[dtype |-> d, bands |-> Stack(k, shape, red, nir)] :
               red \in Arrays(shape, Vals(d)), nir \in Arrays(shape, Vals(d)),
               k \in counts} : d \in Dtypes}

\* too few bands; one pixel and any number of bands; two pixels and 4 bands
Tiffs ==
    {[dtype |-> d, bands |-> Stack(k, <<1, 1>>, Zeros(<<1, 1>>), Zeros(<<1, 1>>))] :
        d \in Dtypes, k \in 0..NirIndex}
    \cup TiffsOf(<<1, 1>>, (NirIndex + 1)..MaxBands)
    \cup TiffsOf(<<1, 2>>, {NirIndex + 1})

NdviVals == {MinusOne, Zero, Half, One, NaN}

NdviShapes ==
    {sh \in (1..MaxRows) \X (1..MaxCols) : sh[1] * sh[2] <= MaxCells}

NdviArrays == UNION {Arrays(sh, NdviVals) : sh \in NdviShapes}

NVals == (0 - MaxNeg)..MaxN

---------------------------------------------------------------------------
(* The caller's session *)

NoTiff == [dtype |-> "uint8", bands |-> <<>>]
NoArray == <<>>
NoRet == [op |-> "none", status |-> "none", num_values |-> 0, value |-> NoValue]

\* the caller holds a raster file, or an NDVI array of their own
Init ==
    /\ \/ tiff \in Tiffs /\ ndvi = NoArray
       \/ tiff = NoTiff /\ ndvi \in NdviArrays
    /\ ret = NoRet

\* ndvi = calculate_ndvi(path): the caller keeps the returned array
Chain ==
    /\ ret.op = "calculate_ndvi"
    /\ ret.status = "ok"
    /\ ndvi # ret.value
    /\ ndvi' = ret.value
    /\ UNCHANGED <<tiff, ret>>

CalculateNdvi ==
    LET out == calculate_ndvi(tiff)
    IN  /\ ret' = [op |-> "calculate_ndvi", status |-> out.status,
                   num_values |-> 0, value |-> out.value]
        /\ tiff' = out.tiff
        /\ UNCHANGED ndvi

PrintNdviStats ==
    /\ ndvi # NoArray
    /\ LET out == print_ndvi_stats(ndvi)
       IN  /\ ret' = [op |-> "print_ndvi_stats", status |-> "ok",
                      num_values |-> 0, value |-> out.printed]
           /\ ndvi' = out.ndvi
    /\ UNCHANGED tiff

GetTopNdviValues(num_values) ==
    /\ ndvi # NoArray
    /\ \E out \in get_top_ndvi_values(ndvi, num_values) :
          /\ ret' = [op |-> "get_top_ndvi_values", status |-> "ok",
                     num_values |-> num_values, value |-> out.df]
          /\ ndvi' = out.ndvi
    /\ UNCHANGED tiff

Next ==
    \/ Chain
    \/ CalculateNdvi
    \/ PrintNdviStats
    \/ \E n \in NVals : GetTopNdviValues(n)

Spec == Init /\ [][Next]_vars

---------------------------------------------------------------------------
(* Properties *)

IsCalc == ret.op = "calculate_ndvi"
IsCalcOk == IsCalc /\ ret.status = "ok"
IsStats == ret.op = "print_ndvi_stats"
IsTop == ret.op = "get_top_ndvi_values"

Pixels == {rc \in (1..2) \X (1..2) :
              /\ Len(tiff.bands) > NirIndex
              /\ rc[1] <= NRows(tiff.bands[NirIndex + 1])
              /\ rc[2] <= NCols(tiff.bands[NirIndex + 1])}
RedAt(rc) == tiff.bands[RedIndex + 1][rc[1]][rc[2]]
NirAt(rc) == tiff.bands[NirIndex + 1][rc[1]][rc[2]]
NdviAt(rc) == ret.value[rc[1]][rc[2]]

\* -1 <= x <= 1
InRange(x) == FLeq(MinusOne, x) /\ FLeq(x, One)

\* (nir - red) / (nir + red) of the values themselves, for finite values
\* with a non-zero sum
TrueRatio(red, nir) == QDiv(QSub(nir, red), QAdd(nir, red))

\* C1 (as claimed, on integer rasters of non-negative values): wherever
\* nir + red is not zero, calculate_ndvi returns (nir - red) / (nir + red)
\* of the values.
C1_TrueRatio ==
    (IsCalcOk /\ tiff.dtype \in IntDtypes) =>
        \A rc \in Pixels :
            (/\ RedAt(rc)[1] >= 0
             /\ NirAt(rc)[1] >= 0
             /\ QAdd(NirAt(rc), RedAt(rc)) # Zero)
            => NdviAt(rc) = TrueRatio(RedAt(rc), NirAt(rc))

\* C2 (as claimed): every element calculate_ndvi returns lies in [-1, 1].
C2_AlwaysInRange ==
    IsCalcOk => \A rc \in Pixels : InRange(NdviAt(rc))

\* C2 (amended): at every pixel whose red and nir values are both finite,
\* the element calculate_ndvi returns lies in [-1, 1].
C2_FiniteInRange ==
    IsCalcOk =>
        \A rc \in Pixels :
            (IsFinite(RedAt(rc)) /\ IsFinite(NirAt(rc))) => InRange(NdviAt(rc))

\* a float pixel whose quotient 4/2 = 2 was clamped to 1, next to a NaN pixel
C2_Witness ==
    /\ IsCalcOk
    /\ tiff.dtype = "float32"
    /\ \E rc \in Pixels :
          /\ RedAt(rc) = Int2Num(-1)
          /\ NirAt(rc) = Int2Num(3)
          /\ NdviAt(rc) = One
    /\ \E rc \in Pixels : IsNaN(RedAt(rc)) /\ IsNaN(NdviAt(rc))

\* the arithmetic of the dtype gives the sum and the difference of the values
Exact(dtype, red, nir) ==
    /\ IsFinite(red)
    /\ IsFinite(nir)
    /\ DAdd(dtype, nir, red) = QAdd(nir, red)
    /\ DSub(dtype, nir, red) = QSub(nir, red)
    /\ QAdd(nir, red) # Zero
    /\ IsFinite(DTrueDivide(dtype, QSub(nir, red), QAdd(nir, red)))

\* x clamped into [-1, 1]
Clamped(x) == IF FLess(x, MinusOne) THEN MinusOne
              ELSE IF FLess(One, x) THEN One ELSE x

\* C3: at every pixel where red + nir = 0 calculate_ndvi returns exactly 0,
\* and the array's other pixels are computed as usual: where the dtype's
\* arithmetic is exact, the value is the ratio clamped into [-1, 1].
C3_ZeroDenominator ==
    IsCalcOk =>
        \A rc \in Pixels :
            /\ IeeeAdd(RedAt(rc), NirAt(rc)) = Zero => NdviAt(rc) = Zero
            /\ Exact(tiff.dtype, RedAt(rc), NirAt(rc))
               => NdviAt(rc) = Clamped(TrueRatio(RedAt(rc), NirAt(rc)))

\* a zero-denominator pixel next to a pixel of NDVI 1/2
C3_Witness ==
    /\ IsCalcOk
    /\ \E rc \in Pixels :
          /\ RedAt(rc) # Zero
          /\ IeeeAdd(RedAt(rc), NirAt(rc)) = Zero
          /\ NdviAt(rc) = Zero
    /\ \E rc \in Pixels : NdviAt(rc) = Half

\* the element of a 2-D array at a zero-based position of its row-major
\* flattening
Deref(a, index) == a[(index \div NCols(a)) + 1][(index % NCols(a)) + 1]

TableRows == Len(ret.value.NDVI)
RowValue(i) == ret.value.NDVI[i]
RowIndex(i) == ret.value.Index[i]

\* the table has two columns of one length, and every Index is a position
\* of the flattened array that holds the row's value
TableDerefs ==
    /\ Len(ret.value.Index) = TableRows
    /\ \A i \in 1..TableRows :
          /\ RowIndex(i) \in 0..(Size(ndvi) - 1)
          /\ Deref(ndvi, RowIndex(i)) = RowValue(i)

\* every row's value is >= the next row's value
TableDescending ==
    \A i \in 1..(TableRows - 1) : FLeq(RowValue(i + 1), RowValue(i))

\* the NaN rows come first, the numbers follow in descending order
TableNaNThenDescending ==
    \A i \in 1..(TableRows - 1) :
        \/ IsNaN(RowValue(i))
        \/ (~IsNaN(RowValue(i + 1)) /\ FLeq(RowValue(i + 1), RowValue(i)))

\* C4 (as claimed): for 1 <= N <= element count the table has N rows, is
\* sorted descending by value, and every Index dereferences to its value.
C4_RankingAnyArray ==
    (IsTop /\ ret.num_values >= 1 /\ ret.num_values <= Size(ndvi)) =>
        /\ TableRows = ret.num_values
        /\ TableDescending
        /\ TableDerefs

\* C4 (amended): for 1 <= N <= element count the table has N rows, every
\* Index dereferences to its value, and the rows are sorted descending by
\* value with the NaN rows, if any, before all numbers.
C4_Ranking ==
    (IsTop /\ ret.num_values >= 1 /\ ret.num_values <= Size(ndvi)) =>
        /\ TableRows = ret.num_values
        /\ TableNaNThenDescending
        /\ TableDerefs

\* the top 3 of a 2 x 2 array holding a NaN
C4_Witness ==
    /\ IsTop
    /\ ret.num_values = 3
    /\ ndvi = <<<<Half, NaN>>, <<One, MinusOne>>>>
    /\ ret.value = [NDVI |-> <<NaN, One, Half>>, Index |-> <<1, 2, 0>>]

\* C5 (as claimed): num_values <= 0 makes get_top_ndvi_values fail and
\* return no table.
C5_RejectsNonPositive ==
    (IsTop /\ ret.num_values <= 0) => ret.status # "ok"

\* every position of the flattened array is the Index of exactly one row
EveryElementOnce ==
    \A k \in 0..(Size(ndvi) - 1) :
        Cardinality({i \in 1..TableRows : RowIndex(i) = k}) = 1

\* C6 (as claimed): for N > element count the table has element-count rows,
\* holds every element exactly once and is sorted descending by value.
C6_SaturationAnyArray ==
    (IsTop /\ ret.num_values > Size(ndvi)) =>
        /\ TableRows = Size(ndvi)
        /\ TableDerefs
        /\ EveryElementOnce
        /\ TableDescending

\* C6 (amended): for N > element count the table has element-count rows and
\* holds every element exactly once, sorted descending by value with the
\* NaN rows, if any, before all numbers.
C6_Saturation ==
    (IsTop /\ ret.num_values > Size(ndvi)) =>
        /\ TableRows = Size(ndvi)
        /\ TableDerefs
        /\ EveryElementOnce
        /\ TableNaNThenDescending

\* N = 5 on a 2 x 2 array: all four elements
C6_Witness ==
    /\ IsTop
    /\ ret.num_values = 5
    /\ ndvi = <<<<Zero, One>>, <<NaN, Half>>>>
    /\ ret.value = [NDVI |-> <<NaN, One, Half, Zero>>, Index |-> <<2, 1, 3, 0>>]

\* C7: calculate_ndvi fails, returning no array, exactly when the stack has
\* fewer than 4 bands; with 4 or more it returns an array of a band's shape.
C7_BandCount ==
    IsCalc =>
        IF Len(tiff.bands) < 4
        THEN ret.status = "IndexError" /\ ret.value = NoValue
        ELSE /\ ret.status = "ok"
             /\ NRows(ret.value) = NRows(tiff.bands[1])
             /\ NCols(ret.value) = NCols(tiff.bands[1])

\* a failure on 3 bands
C7_Witness ==
    IsCalc /\ Len(tiff.bands) = 3 /\ ret.status = "IndexError"

\* the steps of Next by what they leave in ret: Chain keeps ret, a call
\* sets it to its own outcome
CalcStep == ret'.op = "calculate_ndvi" /\ ~Chain
StatsStep == ret'.op = "print_ndvi_stats"
TopStep == ret'.op = "get_top_ndvi_values"

ValidAt == {k \in 0..(Size(ndvi) - 1) : ~IsNaN(Deref(ndvi, k))}

RECURSIVE SumOver(_, _)
SumOver(Op(_), S) ==
    IF S = {} THEN Zero
    ELSE LET k == CHOOSE k \in S : TRUE
         IN  QAdd(Op(k), SumOver(Op, S \ {k}))

SquaredDeviation(k) ==
    LET dev == QSub(Deref(ndvi, k), ret.value.Mean) IN QMul(dev, dev)

StatsExample == <<<<MinusOne, Zero>>, <<Half, One>>>>

\* C9: print_ndvi_stats reports minimum, maximum, mean, median and
\* population standard deviation of exactly the non-NaN entries (NaN when
\* there is none): the minimum and the maximum are entries bounding all
\* entries, the mean times the count is the sum, at most half of the entries
\* lie on either side of the median, and the squared standard deviation
\* times the count is the sum of the squared deviations from the mean; for
\* [[-1, 0], [0.5, 1]] they are -1, 1, 1/8, 1/4 and sqrt(35/64).
C9_Statistics ==
    IsStats =>
        LET st == ret.value
            n == Cardinality(ValidAt)
        IN  /\ DOMAIN st
                = {"Minimum", "Maximum", "Mean", "Median", "StandardDeviation"}
            /\ n = 0 =>
                  /\ IsNaN(st.Minimum) /\ IsNaN(st.Maximum) /\ IsNaN(st.Mean)
                  /\ IsNaN(st.Median) /\ IsNaN(st.StandardDeviation.sqrt_of)
            /\ n > 0 =>
                  /\ \E k \in ValidAt : Deref(ndvi, k) = st.Minimum
                  /\ \A k \in ValidAt : FLeq(st.Minimum, Deref(ndvi, k))
                  /\ \E k \in ValidAt : Deref(ndvi, k) = st.Maximum
                  /\ \A k \in ValidAt : FLeq(Deref(ndvi, k), st.Maximum)
                  /\ QMul(st.Mean, Int2Num(n))
                        = SumOver(LAMBDA k : Deref(ndvi, k), ValidAt)
                  /\ 2 * Cardinality({k \in ValidAt :
                                        FLess(Deref(ndvi, k), st.Median)}) <= n
                  /\ 2 * Cardinality({k \in ValidAt :
                                        FLess(st.Median, Deref(ndvi, k))}) <= n
                  /\ FLeq(st.Minimum, st.Median) /\ FLeq(st.Median, st.Maximum)
                  /\ QMul(st.StandardDeviation.sqrt_of, Int2Num(n))
                        = SumOver(SquaredDeviation, ValidAt)
            /\ ndvi = StatsExample =>
                  /\ st.Minimum = MinusOne
                  /\ st.Maximum = One
                  /\ st.Mean = <<1, 8>>
                  /\ st.Median = <<1, 4>>
                  /\ st.StandardDeviation = Sqrt(<<35, 64>>)

\* the report on [[-1, 0], [0.5, 1]]
C9_Witness ==
    /\ IsStats
    /\ ndvi = StatsExample
    /\ ret.value.Mean = <<1, 8>>

\* C10: for a NaN-free array and N >= 1 the Index column holds pairwise
\* distinct positions of the array, and every element at a position outside
\* the table is <= every value in the table.
C10_LargestValues ==
    (IsTop /\ ret.num_values >= 1 /\ ValidAt = 0..(Size(ndvi) - 1)) =>
        /\ Len(ret.value.Index) = TableRows
        /\ \A i \in 1..TableRows : RowIndex(i) \in 0..(Size(ndvi) - 1)
        /\ \A i, j \in 1..TableRows : i # j => RowIndex(i) # RowIndex(j)
        /\ \A k \in 0..(Size(ndvi) - 1) :
              (\A i \in 1..TableRows : RowIndex(i) # k) =>
                  \A i \in 1..TableRows : FLeq(Deref(ndvi, k), RowValue(i))

\* the top 2 of a NaN-free 2 x 2 array with a tie at the cut
C10_Witness ==
    /\ IsTop
    /\ ret.num_values = 2
    /\ ndvi = <<<<Half, One>>, <<MinusOne, Half>>>>
    /\ ret.value = [NDVI |-> <<One, Half>>, Index |-> <<1, 3>>]

====
